---- MODULE Spec2Model ----
(***************************************************************************)
(* KYC query engine (workspace/kyc_tools/kyc_data_tools.py): the character *)
(* n-gram tokenizer, the per-field BM25 indexes built at construction, the *)
(* ranked search query_bm25 and the exact lookup query_unique_id; and the   *)
(* tool server (workspace/kyc_tools/mcp_server.py) that loads one engine   *)
(* per data file at start-up and serves the search and by-id tools.        *)
(*                                                                         *)
(* Text is a sequence of one-character strings.  Positions are 1-based     *)
(* (Python's index i is position i+1).  Scores are fixed-point numbers in  *)
(* units of 1/100000.                                                      *)
(***************************************************************************)
EXTENDS Integers, Sequences, FiniteSets, TLC

\* ---------------------------------------------------------------- bounds
MaxRecords == 2
MaxTopN == 3
MaxLen == 3

VARIABLES data, text_fields_to_index, ngram_size, unique_id_field,
          field_indexes, built, argsort_ties, call, result,
          files, kyc_data_files, kyc_index_data, KYC_INDEXED_DATA, pc

vars == <<data, text_fields_to_index, ngram_size, unique_id_field,
          field_indexes, built, argsort_ties, call, result,
          files, kyc_data_files, kyc_index_data, KYC_INDEXED_DATA, pc>>

\* The tool server's process: the data files under KYC_DATA_PATH, the glob
\* generator and the local dictionary of get_kyc_data_index, the module's
\* registry, and where the main program stands.
server == <<files, kyc_data_files, kyc_index_data, KYC_INDEXED_DATA, pc>>

engine == <<data, text_fields_to_index, ngram_size, unique_id_field,
            field_indexes, built, argsort_ties>>

\* ------------------------------------------------------- generic helpers
Range(s) == {s[i] : i \in DOMAIN s}

Max(a, b) == IF a >= b THEN a ELSE b

Min(a, b) == IF a <= b THEN a ELSE b

Reverse(s) == [i \in 1..Len(s) |-> s[Len(s) + 1 - i]]

Perms(n) == {p \in [1..n -> 1..n] : \A i, j \in 1..n : p[i] = p[j] => i = j}

RECURSIVE SumOver(_, _)
SumOver(f, S) ==
    IF S = {} THEN 0
    ELSE LET x == CHOOSE y \in S : TRUE IN f[x] + SumOver(f, S \ {x})

\* ------------------------------------------------------- Python values
\* A JSON value of a record: a string, a number (kept as its decimal text)
\* or null.  A key that is absent from the record is absent from the
\* function's domain.
Str(s) == [t |-> "str", v |-> s]

Num(d) == [t |-> "num", v |-> d]

Null == [t |-> "null", v |-> <<>>]

\* str(x): a string is itself, a number its decimal form, None is "None".
py_str(x) == IF x.t = "null" THEN <<"N", "o", "n", "e">> ELSE x.v

\* x == y between JSON values: values of different types are never equal.
py_eq(x, y) == x.t = y.t /\ x.v = y.v

\* dict.get(key, default)
dict_get(doc, key, default) == IF key \in DOMAIN doc THEN doc[key] ELSE default

\* str.lower() of one character.  U+0130 (capital I with dot above) is the
\* one character whose lower-case form is two characters: "i" + U+0307.
lower_char(c) ==
    CASE c = "A" -> <<"a">>
      [] c = "B" -> <<"b">>
      [] c = "N" -> <<"n">>
      [] c = "U0130" -> <<"i", "U0307">>
      [] OTHER -> <<c>>

RECURSIVE lower(_)
lower(text) ==
    IF text = <<>> THEN <<>>
    ELSE lower_char(Head(text)) \o lower(Tail(text))

\* char_ngrams with the range one short: range(len(text) - n).
char_ngrams_short(text, n) ==
    LET t == lower(text)
        k == Len(t) - n
    IN IF k <= 0 THEN <<>> ELSE [i \in 1..k |-> SubSeq(t, i, i + n - 1)]

\* char_ngrams(text, n)
char_ngrams(text, n) ==
    LET t == lower(text)
        k == Len(t) - n + 1
    IN IF k <= 0 THEN <<>> ELSE [i \in 1..k |-> SubSeq(t, i, i + n - 1)]

\* ------------------------------------------------ BM25Okapi (rank_bm25)
\* math.log(x + 0.5) in units of 1/100000, for the document counts that occur.
LogHalf(x) ==
    CASE x = 0 -> 0 - 69315
      [] x = 1 -> 40547
      [] x = 2 -> 91629
      [] x = 3 -> 125276
      [] x = 4 -> 150408
      [] x = 5 -> 170475
      [] x = 6 -> 187180
      [] OTHER -> 200148

\* BM25._initialize: per-document lengths and term frequencies, and nd, the
\* number of documents each word occurs in.  avgdl = num_doc / corpus_size
\* raises ZeroDivisionError on an empty corpus.
BM25_initialize(corpus) ==
    LET words == UNION {Range(corpus[d]) : d \in DOMAIN corpus}
    IN [corpus_size |-> Len(corpus),
        doc_len |-> [d \in DOMAIN corpus |-> Len(corpus[d])],
        num_doc |-> SumOver([d \in DOMAIN corpus |-> Len(corpus[d])], DOMAIN corpus),
        doc_freqs |-> [d \in DOMAIN corpus |->
                         [w \in Range(corpus[d]) |->
                            Cardinality({i \in DOMAIN corpus[d] : corpus[d][i] = w})]],
        nd |-> [w \in words |->
                  Cardinality({d \in DOMAIN corpus : w \in Range(corpus[d])})]]

\* BM25Okapi._calc_idf: idf = log(N - n + 0.5) - log(n + 0.5); a negative idf
\* is replaced by epsilon * average_idf with epsilon = 0.25.  average_idf =
\* idf_sum / len(idf) raises ZeroDivisionError when no document has a word.
BM25_calc_idf(ini) ==
    LET raw == [w \in DOMAIN ini.nd |->
                  LogHalf(ini.corpus_size - ini.nd[w]) - LogHalf(ini.nd[w])]
        average_idf == SumOver(raw, DOMAIN raw) \div Cardinality(DOMAIN raw)
        eps == average_idf \div 4
    IN [w \in DOMAIN raw |-> IF raw[w] < 0 THEN eps ELSE raw[w]]

\* The constructor raises exactly when one of its two divisions is by zero.
BM25_raises(corpus) ==
    \/ Len(corpus) = 0
    \/ \A d \in DOMAIN corpus : corpus[d] = <<>>

BM25Okapi(corpus) ==
    LET ini == BM25_initialize(corpus)
    IN [corpus_size |-> ini.corpus_size,
        doc_len |-> ini.doc_len,
        num_doc |-> ini.num_doc,
        doc_freqs |-> ini.doc_freqs,
        idf |-> BM25_calc_idf(ini)]

\* One query word's contribution to one document's score, with k1 = 1.5 and
\* b = 0.75:  idf * tf * (k1 + 1) / (tf + k1 * (1 - b + b * dl / avgdl))
\*          = idf * 20 * tf * num_doc
\*                / (8 * tf * num_doc + 3 * num_doc + 9 * dl * corpus_size).
BM25_term(index, q, d) ==
    LET tf == dict_get(index.doc_freqs[d], q, 0)
        idf == dict_get(index.idf, q, 0)
    IN (idf * 20 * tf * index.num_doc)
         \div (8 * tf * index.num_doc + 3 * index.num_doc
                 + 9 * index.doc_len[d] * index.corpus_size)

\* BM25Okapi.get_scores(query): one score per document, zero for no words.
get_scores(index, query) ==
    [d \in 1..index.corpus_size |->
       SumOver([i \in DOMAIN query |-> BM25_term(index, query[i], d)], DOMAIN query)]

\* ------------------------------------------------------ numpy argsort
\* scores.argsort(): the positions in ascending order of score.  The default
\* kind (quicksort) is not stable: the order it leaves equal scores in depends
\* on the sorting kernel, which `ties` stands for (a ranking of the positions
\* applied among equal scores).
argsort_before(scores, ties, i, j) ==
    \/ scores[i] < scores[j]
    \/ scores[i] = scores[j] /\ ties[i] < ties[j]

argsort(scores, ties) ==
    LET n == Len(scores)
        rank(i) == 1 + Cardinality({j \in 1..n : argsort_before(scores, ties, j, i)})
    IN [k \in 1..n |-> CHOOSE i \in 1..n : rank(i) = k]

\* The slice taken from the wrong end: a[:top_n].
slice_first(a, top_n) == SubSeq(a, 1, Min(top_n, Len(a)))

\* a[-top_n:] for top_n >= 1
slice_last(a, top_n) == SubSeq(a, Max(1, Len(a) - top_n + 1), Len(a))

\* ---------------------------------------------------------- the inputs
NoneField == "<None>"

\* The records the datasets are drawn from: two with the same key text (one
\* key a string, one a number), one without the "name" key, one whose
\* "name" is null.
FixtureRecords ==
    { [name |-> Str(<<"A", "b">>), id |-> Str(<<"7", "7">>)],
      [name |-> Str(<<"a", "B", "b">>), id |-> Num(<<"7", "7">>)],
      [id |-> Str(<<"7", "7">>)],
      [name |-> Null, id |-> Str(<<"k", "7">>)] }

Datasets == UNION {[1..n -> FixtureRecords] : n \in 0..MaxRecords}

TextFieldLists == {<<>>, <<"name">>, <<"name", "id">>}

NgramSizes == {2, 3}

QueryTexts == {<<>>, <<"A", "b">>, <<"o", "N", "e">>}

QueryFields == {"name", "address"}

KeyValues == {<<"7", "7">>, <<"z", "9">>}

\* ------------------------------------------------------------- results
NoCall ==
    [op |-> "none", text |-> <<>>, field |-> "", top_n |-> 0, n |-> 0,
     fields |-> <<>>, engine_calls |-> <<>>]

NoResult ==
    [kind |-> "none", indices |-> <<>>, records |-> <<>>, tokens |-> <<>>,
     error |-> "", listed |-> {}]

Raise(error, listed) ==
    [kind |-> "raise", indices |-> <<>>, records |-> <<>>, tokens |-> <<>>,
     error |-> error, listed |-> listed]

\* ----------------------------------------------------------------- Init
Init ==
    /\ data = <<>>
    /\ text_fields_to_index = <<>>
    /\ ngram_size = 2
    /\ unique_id_field = NoneField
    /\ field_indexes = <<>>
    /\ built = FALSE
    /\ argsort_ties = <<>>
    /\ call = NoCall
    /\ result = NoResult
    /\ files = <<>>
    /\ kyc_data_files = {}
    /\ kyc_index_data = <<>>
    /\ KYC_INDEXED_DATA = <<>>
    /\ pc = "none"

\* KYCQueryEngine(data, text_fields_to_index, ngram_size, unique_id_field):
\* the dataclass __init__ followed by __post_init__.
post_init_corpus(records, field) ==
    [d \in DOMAIN records |->
       char_ngrams(py_str(dict_get(records[d], field, Str(<<>>))), 2)]

Load(records, fields, n, uid, ties) ==
    /\ ~built
    /\ call' = [NoCall EXCEPT !.op = "load", !.fields = fields, !.field = uid,
                               !.n = n]
    /\ UNCHANGED server
    /\ IF \E i \in DOMAIN fields : BM25_raises(post_init_corpus(records, fields[i]))
       THEN /\ result' = Raise("ZeroDivisionError", {})
            /\ UNCHANGED engine
       ELSE /\ data' = records
            /\ text_fields_to_index' = fields
            /\ ngram_size' = n
            /\ unique_id_field' = uid
            /\ field_indexes' = [f \in Range(fields) |->
                                   BM25Okapi(post_init_corpus(records, f))]
            /\ built' = TRUE
            /\ argsort_ties' = ties
            /\ result' = [NoResult EXCEPT !.kind = "engine"]

\* query_bm25 whose error message names the field asked for instead of the
\* fields that are indexed.
query_bm25_partial_message(text, query_field, top_n) ==
    IF query_field \notin DOMAIN field_indexes
    THEN Raise("ValueError: field is not indexed", {query_field})
    ELSE LET index == field_indexes[query_field]
             tokenized_query == char_ngrams(text, ngram_size)
             scores == get_scores(index, tokenized_query)
             top_n_indices == Reverse(slice_last(argsort(scores, argsort_ties), top_n))
         IN [kind |-> "records",
             indices |-> top_n_indices,
             records |-> [k \in DOMAIN top_n_indices |-> data[top_n_indices[k]]],
             tokens |-> tokenized_query,
             error |-> "", listed |-> {}]

\* query_bm25(text, query_field, top_n)
query_bm25(text, query_field, top_n) ==
    IF query_field \notin DOMAIN field_indexes
    THEN Raise("ValueError: field is not indexed", DOMAIN field_indexes)
    ELSE LET index == field_indexes[query_field]
             tokenized_query == char_ngrams(text, ngram_size)
             scores == get_scores(index, tokenized_query)
             top_n_indices == Reverse(slice_last(argsort(scores, argsort_ties), top_n))
         IN [kind |-> "records",
             indices |-> top_n_indices,
             records |-> [k \in DOMAIN top_n_indices |-> data[top_n_indices[k]]],
             tokens |-> tokenized_query,
             error |-> "", listed |-> {}]

\* A search that leaves the dataset sorted by rank: the returned records
\* first, the others after them.
Search_reordering(text, query_field, top_n) ==
    LET res == query_bm25(text, query_field, top_n)
        rest == argsort([i \in DOMAIN data |-> IF i \in Range(res.indices) THEN 0 ELSE i],
                        [i \in DOMAIN data |-> i])
    IN /\ built
       /\ call' = [NoCall EXCEPT !.op = "search", !.text = text,
                                  !.field = query_field, !.top_n = top_n]
       /\ result' = res
       /\ data' = [k \in DOMAIN data |->
                     IF k <= Len(res.indices) THEN data[res.indices[k]]
                     ELSE data[rest[k]]]
       /\ UNCHANGED <<text_fields_to_index, ngram_size, unique_id_field,
                      field_indexes, built, argsort_ties>>
       /\ UNCHANGED server

Search(text, query_field, top_n) ==
    /\ built
    /\ call' = [NoCall EXCEPT !.op = "search", !.text = text,
                               !.field = query_field, !.top_n = top_n]
    /\ result' = query_bm25(text, query_field, top_n)
    /\ UNCHANGED engine
    /\ UNCHANGED server

\* query_unique_id without the guard on unique_id_field: record.get(None)
\* is None for every record, so the scan finds nothing.
query_unique_id_unguarded(unique_id_value) ==
    LET hits == {i \in DOMAIN data :
                   /\ unique_id_field \in DOMAIN data[i]
                   /\ py_eq(data[i][unique_id_field], Str(unique_id_value))}
    IN IF hits = {}
       THEN [NoResult EXCEPT !.kind = "None"]
       ELSE LET i == CHOOSE h \in hits : \A g \in hits : h <= g
            IN [NoResult EXCEPT !.kind = "record", !.indices = <<i>>,
                                !.records = <<data[i]>>]

\* query_unique_id(unique_id_value)
query_unique_id(unique_id_value) ==
    IF unique_id_field = NoneField
    THEN Raise("ValueError: unique id field is not set", {})
    ELSE LET hits == {i \in DOMAIN data :
                        /\ unique_id_field \in DOMAIN data[i]
                        /\ py_eq(data[i][unique_id_field], Str(unique_id_value))}
         IN IF hits = {}
            THEN [NoResult EXCEPT !.kind = "None"]
            ELSE LET i == CHOOSE h \in hits : \A g \in hits : h <= g
                 IN [NoResult EXCEPT !.kind = "record", !.indices = <<i>>,
                                     !.records = <<data[i]>>]

Lookup(unique_id_value) ==
    /\ built
    /\ call' = [NoCall EXCEPT !.op = "lookup", !.text = unique_id_value]
    /\ result' = query_unique_id(unique_id_value)
    /\ UNCHANGED engine
    /\ UNCHANGED server

Next ==
    \/ \E records \in Datasets, fields \in TextFieldLists, n \in NgramSizes,
          uid \in {NoneField, "id"} :
         \E ties \in Perms(Len(records)) : Load(records, fields, n, uid, ties)
    \/ \E text \in QueryTexts, query_field \in QueryFields, top_n \in 1..MaxTopN :
         Search(text, query_field, top_n)
    \/ \E unique_id_value \in KeyValues : Lookup(unique_id_value)

Spec == Init /\ [][Next]_vars

\* ------------------------------------------------- the tokenizer alone
Alphabet == {"a", "A", "b", "U0130"}

Texts == UNION {[1..n -> Alphabet] : n \in 0..MaxLen}

\* A call of char_ngrams(text, n) on its own.
Tokenize(text, n) ==
    /\ ~built
    /\ call' = [NoCall EXCEPT !.op = "char_ngrams", !.text = text, !.n = n]
    /\ result' = [NoResult EXCEPT !.kind = "tokens", !.tokens = char_ngrams(text, n)]
    /\ UNCHANGED engine
    /\ UNCHANGED server

NextTok == \E text \in Texts, n \in 1..MaxLen : Tokenize(text, n)

SpecTok == Init /\ [][NextTok]_vars

\* ------------------------------------------------------ the tool server
\* KYC_INDEX_FIELDS
KYC_INDEX_FIELDS ==
    [credit_reports |->
        [unique_id |-> "government_id",
         text_fields |-> <<"full_legal_name", "primary_address">>],
     income_verification |->
        [unique_id |-> "government_id", text_fields |-> <<"employee_name">>],
     property_records |->
        [unique_id |-> "property_id",
         text_fields |-> <<"owner_name_on_deed", "property_address">>],
     lien_records |->
        [unique_id |-> "lien_id",
         text_fields |-> <<"debtor_name", "debtor_address">>]]

\* The display names of the files synthetic_<name>.json that may lie under
\* KYC_DATA_PATH: the four datasets, and one file the configuration does not
\* know.  A file either has no line or has two rows.
FileNames == DOMAIN KYC_INDEX_FIELDS \cup {"notes"}

FileKinds == {"empty", "rows"}

FileSystems == UNION {[S -> FileKinds] : S \in SUBSET FileNames}

\* A row of the dataset `name`: its unique id and the same text in each of
\* its text fields.
file_row(name, id, text) ==
    LET cfg == KYC_INDEX_FIELDS[name]
    IN [k \in {cfg.unique_id} \cup Range(cfg.text_fields) |->
          IF k = cfg.unique_id THEN Str(id) ELSE Str(text)]

\* [json.loads(line) for line in f]
file_rows(name, kind) ==
    IF kind = "empty" THEN <<>>
    ELSE <<file_row(name, <<"7", "7">>, <<"A", "b">>),
           file_row(name, <<"k", "7">>, <<"a", "B", "b">>)>>

\* KYCQueryEngine.from_json_lines(file_path, text_fields_to_index,
\* unique_id_field): the engine object built from the rows, ngram_size 2.
from_json_lines_raises(rows, fields) ==
    \E i \in DOMAIN fields : BM25_raises(post_init_corpus(rows, fields[i]))

from_json_lines(rows, fields, uid, ties) ==
    [data |-> rows,
     text_fields_to_index |-> fields,
     ngram_size |-> 2,
     unique_id_field |-> uid,
     field_indexes |-> [f \in Range(fields) |-> BM25Okapi(post_init_corpus(rows, f))],
     argsort_ties |-> ties]

\* query_bm25 of an engine object of the registry.
registry_query_bm25(self, text, query_field, top_n) ==
    IF query_field \notin DOMAIN self.field_indexes
    THEN Raise("ValueError: field is not indexed", DOMAIN self.field_indexes)
    ELSE LET index == self.field_indexes[query_field]
             tokenized_query == char_ngrams(text, self.ngram_size)
             scores == get_scores(index, tokenized_query)
             top_n_indices ==
                 Reverse(slice_last(argsort(scores, self.argsort_ties), top_n))
         IN [kind |-> "records",
             indices |-> top_n_indices,
             records |-> [k \in DOMAIN top_n_indices |-> self.data[top_n_indices[k]]],
             tokens |-> tokenized_query,
             error |-> "", listed |-> {}]

\* query_unique_id of an engine object of the registry.
registry_query_unique_id(self, unique_id_value) ==
    IF self.unique_id_field = NoneField
    THEN Raise("ValueError: unique id field is not set", {})
    ELSE LET hits == {i \in DOMAIN self.data :
                        /\ self.unique_id_field \in DOMAIN self.data[i]
                        /\ py_eq(self.data[i][self.unique_id_field],
                                 Str(unique_id_value))}
         IN IF hits = {}
            THEN [NoResult EXCEPT !.kind = "None"]
            ELSE LET i == CHOOSE h \in hits : \A g \in hits : h <= g
                 IN [NoResult EXCEPT !.kind = "record", !.indices = <<i>>,
                                     !.records = <<self.data[i]>>]

\* The module as imported: KYC_INDEXED_DATA = {} and the files as they lie
\* on disk.
InitServer ==
    /\ data = <<>>
    /\ text_fields_to_index = <<>>
    /\ ngram_size = 2
    /\ unique_id_field = NoneField
    /\ field_indexes = <<>>
    /\ built = FALSE
    /\ argsort_ties = <<>>
    /\ call = NoCall
    /\ result = NoResult
    /\ files \in FileSystems
    /\ kyc_data_files = {}
    /\ kyc_index_data = <<>>
    /\ KYC_INDEXED_DATA = <<>>
    /\ pc = "imported"

\* bool(x) of a generator object x: it has neither __bool__ nor __len__, so
\* it is true whatever it would yield.
generator_bool(names) == TRUE

\* __main__ calls get_kyc_data_index(), which runs up to its loop: the local
\* dictionary, the glob generator, and the test `if not kyc_data_files`.
Main_get_kyc_data_index ==
    /\ pc = "imported"
    /\ call' = [NoCall EXCEPT !.op = "get_kyc_data_index"]
    /\ kyc_index_data' = <<>>
    /\ kyc_data_files' = DOMAIN files
    /\ IF ~generator_bool(DOMAIN files)
       THEN /\ pc' = "exited"
            /\ result' = Raise("FileNotFoundError", {})
       ELSE /\ pc' = "loading"
            /\ result' = NoResult
    /\ UNCHANGED <<files, KYC_INDEXED_DATA>>
    /\ UNCHANGED engine

\* The rows the loop body reads for a file, none for a file whose name the
\* configuration lookup rejects before the file is opened.
rows_read(display_name) ==
    IF display_name \in DOMAIN KYC_INDEX_FIELDS
    THEN file_rows(display_name, files[display_name])
    ELSE <<>>

\* One turn of the loop with the engine stored in the module's registry
\* instead of the local dictionary.
LoadFile_into_registry(display_name, ties) ==
    /\ pc = "loading"
    /\ display_name \in kyc_data_files
    /\ ties \in Perms(Len(rows_read(display_name)))
    /\ kyc_data_files' = kyc_data_files \ {display_name}
    /\ call' = [NoCall EXCEPT !.op = "from_json_lines", !.field = display_name]
    /\ IF display_name \notin DOMAIN KYC_INDEX_FIELDS
       THEN /\ pc' = "exited"
            /\ result' = Raise("KeyError", {})
            /\ UNCHANGED <<kyc_index_data, KYC_INDEXED_DATA>>
       ELSE LET cfg == KYC_INDEX_FIELDS[display_name]
                rows == rows_read(display_name)
            IN IF from_json_lines_raises(rows, cfg.text_fields)
               THEN /\ pc' = "exited"
                    /\ result' = Raise("ZeroDivisionError", {})
                    /\ UNCHANGED <<kyc_index_data, KYC_INDEXED_DATA>>
               ELSE /\ pc' = "loading"
                    /\ result' = [NoResult EXCEPT !.kind = "engine"]
                    /\ KYC_INDEXED_DATA' =
                         (display_name :>
                            from_json_lines(rows, cfg.text_fields, cfg.unique_id, ties))
                           @@ KYC_INDEXED_DATA
                    /\ UNCHANGED kyc_index_data
    /\ UNCHANGED files
    /\ UNCHANGED engine

\* One turn of `for file in kyc_data_files`: the generator yields a file (in
\* the directory's order, which is arbitrary); the configuration lookup
\* raises KeyError for an unknown name, the constructor ZeroDivisionError
\* for rows without shingles; an exception ends the program.
LoadFile(display_name, ties) ==
    /\ pc = "loading"
    /\ display_name \in kyc_data_files
    /\ ties \in Perms(Len(rows_read(display_name)))
    /\ kyc_data_files' = kyc_data_files \ {display_name}
    /\ call' = [NoCall EXCEPT !.op = "from_json_lines", !.field = display_name]
    /\ IF display_name \notin DOMAIN KYC_INDEX_FIELDS
       THEN /\ pc' = "exited"
            /\ result' = Raise("KeyError", {})
            /\ UNCHANGED kyc_index_data
       ELSE LET cfg == KYC_INDEX_FIELDS[display_name]
                rows == rows_read(display_name)
            IN IF from_json_lines_raises(rows, cfg.text_fields)
               THEN /\ pc' = "exited"
                    /\ result' = Raise("ZeroDivisionError", {})
                    /\ UNCHANGED kyc_index_data
               ELSE /\ pc' = "loading"
                    /\ result' = [NoResult EXCEPT !.kind = "engine"]
                    /\ kyc_index_data' =
                         (display_name :>
                            from_json_lines(rows, cfg.text_fields, cfg.unique_id, ties))
                           @@ kyc_index_data
    /\ UNCHANGED <<files, KYC_INDEXED_DATA>>
    /\ UNCHANGED engine

\* The generator is exhausted: get_kyc_data_index returns its dictionary and
\* __main__ binds KYC_INDEXED_DATA to it.
Main_assign ==
    /\ pc = "loading"
    /\ kyc_data_files = {}
    /\ KYC_INDEXED_DATA' = kyc_index_data
    /\ pc' = "assigned"
    /\ call' = [NoCall EXCEPT !.op = "return kyc_index_data"]
    /\ result' = NoResult
    /\ UNCHANGED <<files, kyc_data_files, kyc_index_data>>
    /\ UNCHANGED engine

\* MCP.run(transport="streamable-http"): tool calls are accepted from here.
Main_run ==
    /\ pc = "assigned"
    /\ pc' = "serving"
    /\ call' = [NoCall EXCEPT !.op = "MCP.run"]
    /\ result' = NoResult
    /\ UNCHANGED <<files, kyc_data_files, kyc_index_data, KYC_INDEXED_DATA>>
    /\ UNCHANGED engine

\* The registry key each tool's body names.
SearchTools ==
    [credit_report_search |-> "credit_reports",
     income_verification_search |-> "income_verification",
     property_records_search |-> "property_records",
     lien_records_search |-> "lien_records"]

ByIdTools ==
    [get_credit_report_by_id |-> "credit_reports",
     get_income_verification_by_id |-> "income_verification",
     get_property_record_by_id |-> "property_records",
     get_lien_record_by_id |-> "lien_records"]

EngineCall(name, method, arg) == [dataset |-> name, method |-> method, arg |-> arg]

\* A by-id tool that returns what query_unique_id returned, None included.
by_id_tool_passing_none(tool, id) ==
    LET name == ByIdTools[tool]
    IN IF name \notin DOMAIN KYC_INDEXED_DATA
       THEN [calls |-> <<>>, returns |-> Raise("KeyError", {})]
       ELSE [calls |-> <<EngineCall(name, "query_unique_id", id)>>,
             returns |-> registry_query_unique_id(KYC_INDEXED_DATA[name], id)]

\* get_<dataset>_by_id(id): KYC_INDEXED_DATA[name].query_unique_id(id), then
\* `return result if result else {}` (a dict is true when it has a key).
by_id_tool(tool, id) ==
    LET name == ByIdTools[tool]
    IN IF name \notin DOMAIN KYC_INDEXED_DATA
       THEN [calls |-> <<>>, returns |-> Raise("KeyError", {})]
       ELSE LET r == registry_query_unique_id(KYC_INDEXED_DATA[name], id)
            IN [calls |-> <<EngineCall(name, "query_unique_id", id)>>,
                returns |->
                   IF r.kind = "raise" THEN r
                   ELSE IF r.kind = "record" /\ DOMAIN r.records[1] # {} THEN r
                   ELSE [NoResult EXCEPT !.kind = "empty dict"]]

\* <dataset>_search(query, query_field, top_n); income_verification_search
\* has no query_field parameter and searches "employee_name".
search_tool(tool, query, query_field, top_n) ==
    LET name == SearchTools[tool]
    IN IF name \notin DOMAIN KYC_INDEXED_DATA
       THEN [calls |-> <<>>, returns |-> Raise("KeyError", {})]
       ELSE [calls |-> <<EngineCall(name, "query_bm25", query)>>,
             returns |-> registry_query_bm25(KYC_INDEXED_DATA[name], query,
                                              query_field, top_n)]

ByIdTool(tool, id) ==
    /\ pc = "serving"
    /\ LET h == by_id_tool(tool, id)
       IN /\ call' = [NoCall EXCEPT !.op = tool, !.text = id,
                                    !.engine_calls = h.calls]
          /\ result' = h.returns
    /\ UNCHANGED server
    /\ UNCHANGED engine

SearchTool(tool, query, query_field, top_n) ==
    /\ pc = "serving"
    /\ tool = "income_verification_search" => query_field = "employee_name"
    /\ LET h == search_tool(tool, query, query_field, top_n)
       IN /\ call' = [NoCall EXCEPT !.op = tool, !.text = query,
                                    !.field = query_field, !.top_n = top_n,
                                    !.engine_calls = h.calls]
          /\ result' = h.returns
    /\ UNCHANGED server
    /\ UNCHANGED engine

ToolQueryTexts == {<<>>, <<"A", "b">>}

ToolQueryFields == {"full_legal_name", "employee_name", "property_address", "debtor_name"}

ToolTopNs == {1, 3}

NextServer ==
    \/ Main_get_kyc_data_index
    \/ \E display_name \in FileNames, ties \in Perms(0) \cup Perms(2) :
         LoadFile(display_name, ties)
    \/ Main_assign
    \/ Main_run
    \/ \E tool \in DOMAIN ByIdTools, id \in KeyValues : ByIdTool(tool, id)
    \/ \E tool \in DOMAIN SearchTools, query \in ToolQueryTexts,
          query_field \in ToolQueryFields, top_n \in ToolTopNs :
         SearchTool(tool, query, query_field, top_n)

SpecServer == InitServer /\ [][NextServer]_vars

\* =================================================================== claims
\* The scores the engine's index of the searched field gives the query of the
\* last search, and the place of a dataset position in the returned sequence.
LastScores == get_scores(field_indexes[call.field], result.tokens)

PlaceOf(i) == CHOOSE k \in DOMAIN result.indices : result.indices[k] = i

Returned == Range(result.indices)

SearchReturned == call.op = "search" /\ result.kind = "records"

\* C1: among records with equal scores the earlier-loaded one comes first in
\* the result of a search, and when only one of them is returned it is the
\* earlier one (stated for queries that have tokens, whose result does not
\* depend on what a search without tokens should return).
C1_StableTieBreak ==
    (SearchReturned /\ result.tokens # <<>>) =>
        \A i, j \in DOMAIN data :
            (i < j /\ LastScores[i] = LastScores[j] /\ j \in Returned)
                => (i \in Returned /\ PlaceOf(i) < PlaceOf(j))

\* C2: a search whose query text yields no token (the empty text, or a text
\* shorter than the shingle length) on an indexed field of a non-empty dataset
\* returns the empty sequence and raises nothing.
C2_EmptyQueryReturnsNothing ==
    (/\ call.op = "search"
     /\ call.field \in Range(text_fields_to_index)
     /\ data # <<>>
     /\ Len(call.text) < ngram_size)
        => (result.kind = "records" /\ result.records = <<>>)

\* C3: the shingles of the query of a search have the length of the shingles
\* the searched field's index was built from.
C3_SameShingleLength ==
    SearchReturned =>
        \A q \in Range(result.tokens) :
            \A w \in DOMAIN field_indexes[call.field].idf : Len(q) = Len(w)

\* C4: a search on a field that is not among the configured text fields
\* fails, returns no record, and its message lists every indexed field.
C4_FieldNotIndexed ==
    (call.op = "search" /\ call.field \notin Range(text_fields_to_index))
        => /\ result.kind = "raise"
           /\ result.error = "ValueError: field is not indexed"
           /\ result.records = <<>>
           /\ result.listed = Range(text_fields_to_index)

C4_Witness ==
    /\ call.op = "search"
    /\ call.field = "address"
    /\ text_fields_to_index = <<"name", "id">>
    /\ result.kind = "raise"
    /\ result.listed = {"name", "id"}

\* The positions whose unique-key value, stringified, is the key of the last
\* lookup.
KeyMatches ==
    {i \in DOMAIN data :
        /\ unique_id_field \in DOMAIN data[i]
        /\ py_str(data[i][unique_id_field]) = call.text}

\* C5: with a unique-key field, lookup returns the first record in load
\* order whose key, stringified, equals the key value, and not-found (no
\* error) when there is none.
C5_LookupFirstStringified ==
    (call.op = "lookup" /\ unique_id_field # NoneField) =>
        IF KeyMatches = {}
        THEN result.kind = "None"
        ELSE /\ result.kind = "record"
             /\ result.indices = <<CHOOSE h \in KeyMatches : \A g \in KeyMatches : h <= g>>

\* C6: a load whose text_fields is empty fails and yields no engine.
C6_EmptyTextFieldsRejected ==
    (call.op = "load" /\ call.fields = <<>>) => (result.kind = "raise" /\ ~built)

\* C7: a lookup on an engine loaded without a unique-key field fails, whatever
\* the key and the dataset; it returns neither a record nor not-found.
C7_NoUniqueKey ==
    (call.op = "lookup" /\ unique_id_field = NoneField)
        => /\ result.kind = "raise"
           /\ result.error = "ValueError: unique id field is not set"
           /\ result.records = <<>>

C7_Witness ==
    /\ call.op = "lookup"
    /\ unique_id_field = NoneField
    /\ \E i \in DOMAIN data : "id" \in DOMAIN data[i] /\ data[i]["id"] = Str(call.text)
    /\ result.kind = "raise"

\* C8: a search with at least one query token on an indexed field returns
\* min(top_n, N) records, no position twice, in non-increasing order of
\* score, and no record left out scores higher than a returned one.
C8_TopNRanked ==
    (/\ call.op = "search"
     /\ call.field \in Range(text_fields_to_index)
     /\ char_ngrams(call.text, ngram_size) # <<>>)
        => /\ result.kind = "records"
           /\ Len(result.indices) = Min(call.top_n, Len(data))
           /\ Len(result.records) = Len(result.indices)
           /\ \A k \in DOMAIN result.indices :
                /\ result.indices[k] \in DOMAIN data
                /\ result.records[k] = data[result.indices[k]]
           /\ \A k, m \in DOMAIN result.indices :
                /\ (k # m => result.indices[k] # result.indices[m])
                /\ (k < m => LastScores[result.indices[k]] >= LastScores[result.indices[m]])
           /\ \A i \in DOMAIN data \ Returned :
                \A j \in Returned : LastScores[i] <= LastScores[j]

\* top_n exceeds the dataset size and the scores differ.
C8_Witness ==
    /\ SearchReturned
    /\ result.tokens # <<>>
    /\ Len(data) = 2
    /\ call.top_n > Len(data)
    /\ Len(result.indices) = 2
    /\ LastScores[result.indices[1]] > LastScores[result.indices[2]]

\* The same letter in either case.
SameLetter(c, d) ==
    \/ c = d
    \/ {c, d} \in {{"a", "A"}, {"b", "B"}, {"n", "N"}}

CaseVariants(text) ==
    {u \in Texts : Len(u) = Len(text) /\ \A i \in DOMAIN text : SameLetter(text[i], u[i])}

TokenizeReturned == call.op = "char_ngrams" /\ result.kind = "tokens"

C10_ReadOnlyAfterLoad ==
    [][built =>
         /\ engine' = engine
         /\ (call' = call => result' = result)]_vars

C10_Witness ==
    /\ built
    /\ call.op = "lookup"
    /\ result.kind = "record"
    /\ Len(data) = 2
    /\ result.indices = <<2>>

\* C13: a record whose value for an indexed field is absent (no such key) or
\* null is indexed as the empty string: its document in that field's index
\* has no shingle, so no query token matches it.
C13_AbsentIndexedAsEmpty ==
    built =>
        \A f \in DOMAIN field_indexes :
            \A d \in DOMAIN data :
                (f \notin DOMAIN data[d] \/ data[d][f] = Null)
                    => /\ field_indexes[f].doc_len[d] = 0
                       /\ DOMAIN field_indexes[f].doc_freqs[d] = {}

\* The engine of the registry for a file is the whole engine: every row of
\* the file, and an index of every configured text field over all the rows.
FullyBuilt(name) ==
    LET e == KYC_INDEXED_DATA[name]
    IN /\ name \in DOMAIN files
       /\ name \in DOMAIN KYC_INDEX_FIELDS
       /\ e.data = file_rows(name, files[name])
       /\ e.unique_id_field = KYC_INDEX_FIELDS[name].unique_id
       /\ DOMAIN e.field_indexes = Range(KYC_INDEX_FIELDS[name].text_fields)
       /\ \A f \in DOMAIN e.field_indexes :
            e.field_indexes[f].corpus_size = Len(e.data)

CompleteRegistry ==
    /\ DOMAIN KYC_INDEXED_DATA = DOMAIN files
    /\ \A name \in DOMAIN KYC_INDEXED_DATA : FullyBuilt(name)

ToolNames == DOMAIN ByIdTools \cup DOMAIN SearchTools

\* C11: the registry KYC_INDEXED_DATA is at every moment empty or the
\* complete set of fully built engines (one per data file), a load that fails
\* part-way leaves it empty, and tool calls are served only once it holds the
\* complete set.
C11_LoadBeforeServe ==
    /\ KYC_INDEXED_DATA = <<>> \/ CompleteRegistry
    /\ pc = "exited" => KYC_INDEXED_DATA = <<>>
    /\ pc = "serving" => CompleteRegistry
    /\ call.op \in ToolNames => (pc = "serving" /\ CompleteRegistry)

\* A load that failed after an engine had been built.
C11_Witness ==
    /\ pc = "exited"
    /\ result.error = "ZeroDivisionError"
    /\ DOMAIN kyc_index_data # {}
    /\ KYC_INDEXED_DATA = <<>>

\* The dataset each by-id tool is for.
OwnDataset(tool) ==
    CASE tool = "get_credit_report_by_id" -> "credit_reports"
      [] tool = "get_income_verification_by_id" -> "income_verification"
      [] tool = "get_property_record_by_id" -> "property_records"
      [] tool = "get_lien_record_by_id" -> "lien_records"

ByIdToolNames ==
    {"get_credit_report_by_id", "get_income_verification_by_id",
     "get_property_record_by_id", "get_lien_record_by_id"}

\* C12: a by-id tool makes exactly one lookup, on the engine of its own
\* dataset and with the id it was given; when no row of that dataset has the
\* id it returns the empty dictionary and raises nothing, otherwise the row.
C12_ByIdNotFoundIsEmpty ==
    (call.op \in ByIdToolNames /\ OwnDataset(call.op) \in DOMAIN KYC_INDEXED_DATA) =>
        LET name == OwnDataset(call.op)
            rows == file_rows(name, files[name])
            uid == KYC_INDEX_FIELDS[name].unique_id
            found == {i \in DOMAIN rows : rows[i][uid] = Str(call.text)}
        IN /\ call.engine_calls = <<EngineCall(name, "query_unique_id", call.text)>>
           /\ result.kind # "raise"
           /\ found = {} => (result.kind = "empty dict" /\ result.records = <<>>)
           /\ found # {} => (/\ result.kind = "record"
                             /\ \E i \in found : result.records = <<rows[i]>>)

C12_Witness ==
    /\ call.op = "get_lien_record_by_id"
    /\ "lien_records" \in DOMAIN KYC_INDEXED_DATA
    /\ call.text = <<"z", "9">>
    /\ call.engine_calls = <<EngineCall("lien_records", "query_unique_id", <<"z", "9">>)>>
    /\ result.kind = "empty dict"

\* C14: with no data file under KYC_DATA_PATH, get_kyc_data_index ends by
\* raising FileNotFoundError: it does not return, and the server does not
\* start.
C14_NoFilesRaises ==
    (DOMAIN files = {} /\ pc \in {"assigned", "serving", "exited"})
        => (pc = "exited" /\ result.error = "FileNotFoundError")

====
